---- MODULE Spec2Model ----
(***************************************************************************)
(* A model of the validate-execute-repair machinery of AIdevtools and of   *)
(* the network-resilience primitives guarding its outbound calls:          *)
(*   - app/utils/circuit_breaker.py   CircuitBreaker                       *)
(*   - app/utils/http_client.py       make_request_with_retry,             *)
(*                                    RetryableHttpClient                  *)
(*   - app/services/code_validator.py CodeValidator                        *)
(***************************************************************************)
EXTENDS Integers, Sequences, FiniteSets, TLC

VARIABLES
    \* ---- CircuitBreaker (one instance) and the clock time.time() reads
    breaker,        \* [failure_threshold, recovery_timeout, failure_count,
                    \*  last_failure_time, state]
    now,            \* the wall clock
    \* ---- RetryableHttpClient configuration
    client,         \* [max_retries, backoff_factor, has_breaker]
    endpoint,       \* the outcomes a request to the remote endpoint can have
    callers,        \* the coroutines that use the client
    \* ---- one record per calling coroutine (locals of post / call /
    \*      make_request_with_retry, and what the caller observed)
    pc,             \* "idle" | "request" | "sleeping" | "done"
    attempt,        \* loop variable of make_request_with_retry
    last_exception, \* local last_exception of make_request_with_retry
    wake_at,        \* the time at which asyncio.sleep(delay) may return
    result,         \* what the call returned or raised
    sent,           \* history: HTTP requests sent by the current call
    delays,         \* history: the delays slept by the current call
    replies,        \* history: the outcomes of the current call's requests
    entry,          \* history: what the breaker looked like when the call entered
    streak,         \* history: failed breaker calls in a row since the last success
    probe,          \* history: the caller that took the breaker to HALF_OPEN (0: none)
    \* ---- one session of CodeValidator.validate_with_ai_retry
    max_ai_retries, \* its parameter max_retries
    current_code,   \* its locals
    retries_count,
    retry,          \* the loop variable
    loop_pc,        \* "loop" | "ai_wait" (at await chat_completion) | "returned"
    last_result,    \* result: the CodeValidationResult of the last execute_code
    returned,       \* the dict the session returned
    scratch,        \* what the execute_code calls did to the host
    trail,          \* history: executions and fixes, in order
    \* ---- one run of generate_and_correct_test (generate_self_correcting_test.py)
    gc_attempt,     \* its loop variable attempt
    gc_pc,          \* "await_ai" | "pause" (asyncio.sleep) | "returned" | "raised"
    best_code,      \* <<>> for None, <<code>> otherwise
    best_results,   \* <<>> for None, <<results>> otherwise
    gc_execution,   \* execution: the record of the latest execute_code
    gc_saved,       \* the texts written to generated_test_attempt_<n>.py, in order
    gc_success,     \* what the run returned: "none" | "True" | "False"
    \* ---- CodeValidator._apply_common_fixes applied to a text, time after time
    fx_code,        \* the text: the argument at first, then the latest fixed_code
    fx_errors,      \* the argument errors, the same at every application
    fx_before,      \* the argument of the latest application
    fx_fixes,       \* the fixes the latest application reported
    fx_applied,     \* how many times it was applied
    \* ---- the host process
    environ,        \* os.environ: the names of the variables it holds
    \* ---- RateLimiter (app/core/deps.py) and its Redis store, per key
    rl_limit,       \* the limit in force
    rl_count,       \* the counter Redis keeps under the key (0: no such key)
    rl_ttl,         \* does the key expire?
    rl_calls,       \* history: check_limit calls since the key last expired
    rl_last,        \* history: how the latest check_limit ended
    \* ---- CodeValidator._parse_allure_results applied to a directory
    ar_dir,         \* results_dir: whether it exists and its *-result.json files
    ar_results      \* what the call returned

netVars == <<breaker, now, client, endpoint, callers, pc, attempt, last_exception,
             wake_at, result, sent, delays, replies, entry, streak, probe>>

repairVars == <<max_ai_retries, current_code, retries_count, retry, loop_pc,
                last_result, returned, scratch, trail>>

(* The locals of validate_with_ai_retry alone. *)
sessionVars == <<max_ai_retries, current_code, retries_count, retry, loop_pc,
                 last_result, returned, trail>>

correctVars == <<gc_attempt, gc_pc, best_code, best_results, gc_execution,
                 gc_saved, gc_success>>

fixerVars == <<fx_code, fx_errors, fx_before, fx_fixes, fx_applied>>

(* What the actions of the components above leave alone: the state of the  *)
(* single functions under study and the environment of the host process.   *)
limiterVars == <<rl_limit, rl_count, rl_ttl, rl_calls, rl_last>>

allureVars == <<ar_dir, ar_results>>

toolVars == <<fixerVars, environ, limiterVars, allureVars>>

vars == <<netVars, repairVars, correctVars, toolVars>>

-----------------------------------------------------------------------------
(* Bounds of the model.                                                    *)

NumCallers == 2
MaxThreshold == 2
MaxRecovery == 2
MaxTime == 3
MaxFailures == 3
MaxRetries == 2
MaxBackoff == 1

Procs == 1..NumCallers

(* self.last_failure_time = None *)
NoTime == -1

-----------------------------------------------------------------------------
(* CircuitBreaker                                                          *)

NewBreaker(threshold, timeout) ==
    [failure_threshold |-> threshold,
     recovery_timeout  |-> timeout,
     failure_count     |-> 0,
     last_failure_time |-> NoTime,
     state             |-> "CLOSED"]

(* Python truthiness of last_failure_time: None and 0 are false *)
Truthy(t) == t # NoTime /\ t # 0

ShouldAttemptReset(b, t) ==
    /\ Truthy(b.last_failure_time)
    /\ t - b.last_failure_time >= b.recovery_timeout

OnSuccess(b) ==
    [b EXCEPT !.failure_count = 0,
              !.state = IF b.state = "HALF_OPEN" THEN "CLOSED" ELSE b.state]

OnFailure_Late(b, t) ==
    [b EXCEPT !.failure_count = b.failure_count + 1,
              !.last_failure_time = t,
              !.state = IF b.failure_count + 1 > b.failure_threshold
                        THEN "OPEN" ELSE b.state]

OnFailure(b, t) ==
    [b EXCEPT !.failure_count = b.failure_count + 1,
              !.last_failure_time = t,
              !.state = IF b.failure_count + 1 >= b.failure_threshold
                        THEN "OPEN" ELSE b.state]

Rejected_AsFailure(b, t) == OnFailure(b, t)

(* raise Exception("Circuit breaker is OPEN - calls are failing fast"):    *)
(* the breaker as the rejection leaves it.                                 *)
Rejected(b, t) == b

Gate_AlwaysAdmit(b, t) ==
    [verdict |-> "admit",
     breaker |-> [b EXCEPT !.state = IF b.state = "OPEN" THEN "HALF_OPEN" ELSE b.state]]

(* The gate at the head of CircuitBreaker.call: "reject", or "admit" with  *)
(* the breaker as the gate leaves it.                                      *)
Gate(b, t) ==
    IF b.state = "OPEN"
    THEN IF ShouldAttemptReset(b, t)
         THEN [verdict |-> "admit", breaker |-> [b EXCEPT !.state = "HALF_OPEN"]]
         ELSE [verdict |-> "reject", breaker |-> Rejected(b, t)]
    ELSE [verdict |-> "admit", breaker |-> b]

-----------------------------------------------------------------------------
(* make_request_with_retry                                                 *)

(* What one client.request + raise_for_status + json can do. *)
(* "network": httpx.TimeoutException or httpx.ConnectError, which share a  *)
(* handler; "other": any other Exception (a body that is not JSON, ...).   *)
Statuses == {200, 404, 500, 503}
Outcomes ==
    [kind : {"response"}, status : Statuses]
    \cup [kind : {"network", "other"}, status : {0}]

NoException == [kind |-> "none", status |-> 0]

IsSuccess(o) == o.kind = "response" /\ o.status >= 200 /\ o.status < 300
IsHTTPStatusError(o) == o.kind = "response" /\ ~IsSuccess(o)

IsClientError_Never(o) == FALSE

IsClientError(o) == IsHTTPStatusError(o) /\ 400 <= o.status /\ o.status < 500

RECURSIVE Pow2(_)
Pow2(n) == IF n <= 0 THEN 1 ELSE 2 * Pow2(n - 1)

Delay_Constant(backoff_factor, k) == backoff_factor

(* delay = backoff_factor * (2 ** attempt) *)
Delay(backoff_factor, k) == backoff_factor * Pow2(k)

(* "Don't sleep after last attempt" *)
SleepsAfter(k, max_retries) == k < max_retries

(* The HTTPException raised once the loop has run out. *)
ExhaustedStatus_Always503(last) == 503

ExhaustedStatus(last) ==
    IF last.kind # "none"
    THEN IF IsHTTPStatusError(last) THEN last.status ELSE 503
    ELSE 503

NoResult == [kind |-> "none", status |-> 0]
Returned == [kind |-> "ok", status |-> 200]
BreakerOpenError == [kind |-> "breaker_open", status |-> 0]
Cancelled == [kind |-> "cancelled", status |-> 0]
HTTPException(s) == [kind |-> "http_exception", status |-> s]

-----------------------------------------------------------------------------
(* RetryableHttpClient.post / get over CircuitBreaker.call                 *)
(*                                                                         *)
(* asyncio runs a coroutine without interruption up to its next await that *)
(* suspends: the request (client.request) and the backoff (asyncio.sleep). *)
(* One action is one such uninterrupted run.                               *)

(* History only: what a caller saw of the breaker when it entered call(). *)
EntryView(b, t, pr) ==
    CASE b.state = "CLOSED" -> "closed"
      [] b.state = "OPEN" /\ b.last_failure_time # NoTime
                          /\ t - b.last_failure_time < b.recovery_timeout -> "open_wait"
      [] b.state = "OPEN" /\ b.last_failure_time # NoTime
                          /\ t - b.last_failure_time >= b.recovery_timeout -> "open_reset"
      [] b.state = "HALF_OPEN" /\ pr # 0 -> "half_probe"
      [] OTHER -> "half_idle"

(* The call of p ends: CircuitBreaker.call's _on_success / _on_failure, or *)
(* neither for an exception outside expected_exception (cancellation).     *)
Finish(p, res) ==
    /\ pc' = [pc EXCEPT ![p] = "done"]
    /\ result' = [result EXCEPT ![p] = res]
    /\ probe' = IF probe = p THEN 0 ELSE probe
    /\ IF client.has_breaker /\ res.kind = "ok"
       THEN breaker' = OnSuccess(breaker) /\ streak' = 0
       ELSE IF client.has_breaker /\ res.kind = "http_exception"
       THEN breaker' = OnFailure(breaker, now) /\ streak' = streak + 1
       ELSE UNCHANGED <<breaker, streak>>

(* post(): the gate of CircuitBreaker.call, then make_request_with_retry   *)
(* up to its first request.                                                *)
Post(p) ==
    /\ UNCHANGED <<repairVars, correctVars, toolVars>>
    /\ p \in callers
    /\ pc[p] = "idle"
    /\ now <= MaxTime
    /\ entry' = [entry EXCEPT ![p] =
                    IF client.has_breaker THEN EntryView(breaker, now, probe)
                    ELSE "direct"]
    /\ IF client.has_breaker /\ Gate(breaker, now).verdict = "reject"
       THEN /\ pc' = [pc EXCEPT ![p] = "done"]
            /\ result' = [result EXCEPT ![p] = BreakerOpenError]
            /\ breaker' = Gate(breaker, now).breaker
            /\ UNCHANGED <<probe, attempt, last_exception, sent>>
       ELSE /\ breaker' = IF client.has_breaker
                          THEN Gate(breaker, now).breaker ELSE breaker
            /\ probe' = IF client.has_breaker /\ breaker.state = "OPEN"
                        THEN p ELSE probe
            /\ attempt' = [attempt EXCEPT ![p] = 0]
            /\ last_exception' = [last_exception EXCEPT ![p] = NoException]
            /\ sent' = [sent EXCEPT ![p] = 1]
            /\ pc' = [pc EXCEPT ![p] = "request"]
            /\ UNCHANGED result
    /\ UNCHANGED <<now, client, endpoint, callers, wake_at, delays, replies, streak>>

(* for attempt in range(max_retries + 1): is there a next iteration? *)
HasNext_OneMore(k, max_retries) == k + 1 <= max_retries + 1

HasNext(k, max_retries) == k + 1 < max_retries + 1

(* The top of the for loop after iteration attempt[p] failed with `last`:  *)
(* the next iteration up to its request, or "All retries failed".          *)
LoopNext(p, last) ==
    IF HasNext(attempt[p], client.max_retries)
    THEN /\ attempt' = [attempt EXCEPT ![p] = @ + 1]
         /\ sent' = [sent EXCEPT ![p] = @ + 1]
         /\ pc' = [pc EXCEPT ![p] = "request"]
         /\ UNCHANGED <<breaker, streak, probe, result>>
    ELSE /\ Finish(p, HTTPException(ExhaustedStatus(last)))
         /\ UNCHANGED <<attempt, sent>>

(* The request of p completes with outcome o: the rest of the loop body,   *)
(* and, when the loop is over, the return or raise through the breaker.    *)
Respond(p) ==
    /\ UNCHANGED <<repairVars, correctVars, toolVars>>
    /\ pc[p] = "request"
    /\ \E o \in endpoint :
        /\ (client.has_breaker /\ ~IsSuccess(o)) => breaker.failure_count < MaxFailures
        /\ replies' = [replies EXCEPT ![p] = Append(@, o)]
        /\ IF IsSuccess(o)
           THEN /\ Finish(p, Returned)
                /\ UNCHANGED <<attempt, sent, last_exception, wake_at, delays>>
           ELSE IF IsClientError(o)
           THEN /\ Finish(p, HTTPException(o.status))
                /\ UNCHANGED <<attempt, sent, last_exception, wake_at, delays>>
           ELSE IF SleepsAfter(attempt[p], client.max_retries)
           THEN /\ last_exception' = [last_exception EXCEPT ![p] = o]
                /\ delays' = [delays EXCEPT ![p] =
                                Append(@, Delay(client.backoff_factor, attempt[p]))]
                /\ wake_at' = [wake_at EXCEPT ![p] =
                                now + Delay(client.backoff_factor, attempt[p])]
                /\ pc' = [pc EXCEPT ![p] = "sleeping"]
                /\ UNCHANGED <<breaker, streak, probe, result, attempt, sent>>
           ELSE /\ LoopNext(p, o)
                /\ UNCHANGED <<last_exception, wake_at, delays>>
    /\ UNCHANGED <<now, client, endpoint, callers, entry>>

(* asyncio.sleep(delay) returns: on to the top of the loop. *)
Wake(p) ==
    /\ UNCHANGED <<repairVars, correctVars, toolVars>>
    /\ pc[p] = "sleeping"
    /\ now >= wake_at[p]
    /\ client.has_breaker => breaker.failure_count < MaxFailures
    /\ LoopNext(p, last_exception[p])
    /\ UNCHANGED <<now, client, endpoint, callers, last_exception, wake_at, delays,
                   replies, entry>>

(* The caller's task is cancelled at an await: CancelledError is not an    *)
(* Exception, so neither the retry loop nor the breaker handles it.        *)
Cancel(p) ==
    /\ UNCHANGED <<repairVars, correctVars, toolVars>>
    /\ pc[p] \in {"request", "sleeping"}
    /\ Finish(p, Cancelled)
    /\ UNCHANGED <<now, client, endpoint, callers, attempt, last_exception, wake_at,
                   sent, delays, replies, entry>>

(* The caller has its answer and may call again. *)
Return(p) ==
    /\ UNCHANGED <<repairVars, correctVars, toolVars>>
    /\ pc[p] = "done"
    /\ pc' = [pc EXCEPT ![p] = "idle"]
    /\ result' = [result EXCEPT ![p] = NoResult]
    /\ attempt' = [attempt EXCEPT ![p] = 0]
    /\ last_exception' = [last_exception EXCEPT ![p] = NoException]
    /\ wake_at' = [wake_at EXCEPT ![p] = 0]
    /\ sent' = [sent EXCEPT ![p] = 0]
    /\ delays' = [delays EXCEPT ![p] = <<>>]
    /\ replies' = [replies EXCEPT ![p] = <<>>]
    /\ entry' = [entry EXCEPT ![p] = "none"]
    /\ UNCHANGED <<breaker, now, client, endpoint, callers, streak, probe>>

(* Time passes: up to the horizon MaxTime, and past it only for as long   *)
(* as a backoff that began before it is still being slept.                *)
Tick ==
    /\ UNCHANGED <<repairVars, correctVars, toolVars>>
    /\ \/ now < MaxTime
       \/ \E p \in Procs : pc[p] = "sleeping" /\ wake_at[p] > now
    /\ now' = now + 1
    /\ UNCHANGED <<breaker, client, endpoint, callers, pc, attempt, last_exception,
                   wake_at, result, sent, delays, replies, entry, streak, probe>>

InitCalls ==
    /\ now = 1
    /\ pc = [p \in Procs |-> "idle"]
    /\ attempt = [p \in Procs |-> 0]
    /\ last_exception = [p \in Procs |-> NoException]
    /\ wake_at = [p \in Procs |-> 0]
    /\ result = [p \in Procs |-> NoResult]
    /\ sent = [p \in Procs |-> 0]
    /\ delays = [p \in Procs |-> <<>>]
    /\ replies = [p \in Procs |-> <<>>]
    /\ entry = [p \in Procs |-> "none"]
    /\ streak = 0
    /\ probe = 0

-----------------------------------------------------------------------------
(* Source text                                                             *)
(*                                                                         *)
(* A source text is its sequence of lines (what str.split('\n') returns:   *)
(* the empty string is the one empty line). A line is its indentation (in  *)
(* units of four spaces) and what it says, from a small catalogue that     *)
(* covers what the validator and the fixer look at.                        *)

Texts == {"blank",            \* an empty line
          "stmt",             \* x = 1
          "open",             \* def test_a():
          "bad",              \* x = = 1
          "use_pytest",       \* pytest.skip("x")
          "import_pytest",    \* import pytest
          "use_unittest",     \* unittest.main()
          "import_unittest",  \* import unittest
          "deco_allure",      \* @allure.title("t")
          "import_allure",    \* import allure
          "use_severity",     \* level = Severity.CRITICAL
          "import_severity",  \* from allure_commons.types import Severity
          "fence_py",         \* ```python
          "fence",            \* ```
          "nul"}              \* a line with a null byte in it

L(indent, text) == [indent |-> indent, text |-> text]
Blank == L(0, "blank")
IsBlank(line) == line.text = "blank"

(* pattern in line, for the patterns the code searches for ("fence" is    *)
(* the three backquotes that open or close a code block in markdown,      *)
(* "fence python" the same followed by the word python)                   *)
LineHas(line, pattern) ==
    CASE pattern = "pytest" -> line.text \in {"use_pytest", "import_pytest"}
      [] pattern = "import pytest" -> line.text = "import_pytest"
      [] pattern = "unittest" -> line.text \in {"use_unittest", "import_unittest"}
      [] pattern = "import unittest" -> line.text = "import_unittest"
      [] pattern = "@allure" -> line.text = "deco_allure"
      [] pattern = "import allure" -> line.text = "import_allure"
      [] pattern = "Severity" -> line.text \in {"use_severity", "import_severity"}
      [] pattern = "from allure_commons.types import Severity"
            -> line.text = "import_severity"
      [] pattern = "fence python" -> line.text = "fence_py"
      [] pattern = "fence" -> line.text \in {"fence", "fence_py"}
      [] OTHER -> FALSE

(* pattern in code *)
Has(code, pattern) == \E i \in 1..Len(code) : LineHas(code[i], pattern)

-----------------------------------------------------------------------------
(* CodeValidator.validate_syntax: ast.parse, which stops at the first     *)
(* error. The parser is external: it is modelled by the block structure   *)
(* of the lines.                                                           *)

SyntaxErr(kind, lineno) == [kind |-> kind, lineno |-> lineno]

(* The parser's position: the indentation level of the enclosing block and *)
(* what the grammar needs next ("any", "body" after a block opener, "def"  *)
(* after a decorator).                                                     *)
RECURSIVE Scan(_, _, _, _)
Scan(code, i, level, need) ==
    IF i > Len(code)
    THEN IF need = "body" THEN <<SyntaxErr("expected an indented block", Len(code))>>
         ELSE IF need = "def" THEN <<SyntaxErr("invalid syntax", Len(code))>>
         ELSE <<>>
    ELSE LET line == code[i] IN
         IF IsBlank(line) THEN Scan(code, i + 1, level, need)
         ELSE IF need = "body" /\ line.indent <= level
         THEN <<SyntaxErr("expected an indented block", i)>>
         ELSE IF need # "body" /\ line.indent > level
         THEN <<SyntaxErr("unexpected indent", i)>>
         ELSE IF \/ line.text \in {"bad", "fence", "fence_py"}
                 \/ (need = "def" /\ (line.text \notin {"open", "deco_allure"}
                                      \/ line.indent # level))
         THEN <<SyntaxErr("invalid syntax", i)>>
         ELSE Scan(code, i + 1, line.indent,
                   CASE line.text = "open" -> "body"
                     [] line.text = "deco_allure" -> "def"
                     [] OTHER -> "any")

(* ast.parse refuses a text with a null byte before it parses anything,   *)
(* with an exception that is not a SyntaxError: the second except clause.  *)
ValidateSyntax(code) ==
    IF \E i \in 1..Len(code) : code[i].text = "nul"
    THEN <<SyntaxErr("Parse error", 0)>>
    ELSE Scan(code, 1, 0, "any")

-----------------------------------------------------------------------------
(* CodeValidator._apply_common_fixes                                       *)

(* line.strip().endswith(':') *)
EndsWithColon(line) == line.text = "open"
(* next_line.startswith((' ', '\t')) *)
StartsIndented(line) == line.indent > 0
Indent(line) == [line EXCEPT !.indent = @ + 1]

(* The Severity import goes after the first line that has 'import allure'; *)
(* without such a line nothing is inserted.                                *)
InsertSeverity(lines) ==
    IF \E i \in 1..Len(lines) : LineHas(lines[i], "import allure")
    THEN LET i == CHOOSE k \in 1..Len(lines) :
                    /\ LineHas(lines[k], "import allure")
                    /\ \A j \in 1..(k - 1) : ~LineHas(lines[j], "import allure")
         IN SubSeq(lines, 1, i) \o <<L(0, "import_severity")>>
                \o SubSeq(lines, i + 1, Len(lines))
    ELSE lines

(* The loop over enumerate(lines) of the indentation fix: line i is kept,  *)
(* and when it opens a block and the next line is not indented, the next   *)
(* line is appended indented as well.                                      *)
RECURSIVE FixIndentFrom(_, _)
FixIndentFrom(lines, i) ==
    IF i > Len(lines) THEN <<>>
    ELSE IF /\ EndsWithColon(lines[i])
            /\ i + 1 <= Len(lines)
            /\ ~IsBlank(lines[i + 1])
            /\ ~StartsIndented(lines[i + 1])
         THEN <<lines[i], Indent(lines[i + 1])>> \o FixIndentFrom(lines, i + 1)
         ELSE <<lines[i]>> \o FixIndentFrom(lines, i + 1)

(* "IndentationError" in err or "expected an indented block" in err: the   *)
(* message of validate_syntax carries e.msg, not the exception's class.    *)
MentionsIndentation(errors) ==
    \E k \in 1..Len(errors) : errors[k].kind = "expected an indented block"

ApplyCommonFixes(code, errors) ==
    LET f1 == IF Has(code, "pytest") /\ ~Has(code, "import pytest")
              THEN [code |-> <<L(0, "import_pytest")>> \o code, fixes |-> <<"pytest">>]
              ELSE [code |-> code, fixes |-> <<>>]
        f2 == IF Has(code, "unittest") /\ ~Has(code, "import unittest")
              THEN [code |-> <<L(0, "import_unittest")>> \o f1.code,
                    fixes |-> Append(f1.fixes, "unittest")]
              ELSE f1
        f3 == IF Has(code, "@allure") /\ ~Has(code, "import allure")
              THEN [code |-> <<L(0, "import_allure")>> \o f2.code,
                    fixes |-> Append(f2.fixes, "allure")]
              ELSE f2
        f4 == IF /\ Has(code, "Severity")
                 /\ ~Has(code, "from allure_commons.types import Severity")
              THEN [code |-> InsertSeverity(f3.code),
                    fixes |-> Append(f3.fixes, "Severity")]
              ELSE f3
        fixed_lines == FixIndentFrom(f4.code, 1)
    IN  IF MentionsIndentation(errors) /\ Len(fixed_lines) # Len(f4.code)
        THEN [code |-> fixed_lines, fixes |-> Append(f4.fixes, "indentation")]
        ELSE f4

-----------------------------------------------------------------------------
(* CodeValidator.validate_and_fix                                          *)

RECURSIVE ValidateAndFixFrom(_, _, _, _)
ValidateAndFixFrom(fixed_code, fixes_applied, attempt_no, max_fix) ==
    LET syntax_errors == ValidateSyntax(fixed_code)
        final == [fixed_code |-> fixed_code,
                  is_valid |-> ValidateSyntax(fixed_code) = <<>>,
                  fixes_applied |-> fixes_applied,
                  remaining_errors |-> ValidateSyntax(fixed_code)]
    IN  IF attempt_no >= max_fix THEN final
        ELSE IF syntax_errors = <<>> THEN final
        ELSE IF attempt_no < max_fix - 1
        THEN LET r == ApplyCommonFixes(fixed_code, syntax_errors) IN
             IF r.fixes = <<>>
             THEN [final EXCEPT !.fixed_code = r.code,
                                !.is_valid = ValidateSyntax(r.code) = <<>>,
                                !.remaining_errors = ValidateSyntax(r.code)]
             ELSE ValidateAndFixFrom(r.code, fixes_applied \o r.fixes,
                                     attempt_no + 1, max_fix)
        ELSE ValidateAndFixFrom(fixed_code, fixes_applied, attempt_no + 1, max_fix)

(* max_retries: int = 3 *)
FixPasses == 3

ValidateAndFix(code) == ValidateAndFixFrom(code, <<>>, 0, FixPasses)

-----------------------------------------------------------------------------
(* CodeValidator._parse_allure_results                                     *)
(*                                                                         *)
(* The directory is the sequence of its *-result.json files in glob order; *)
(* a file is the status it records, "unknown" for a status outside the     *)
(* four (or none), "corrupt" when json.load raises on it, "not_object"     *)
(* when it holds JSON that is not an object (test_result.get raises),      *)
(* "bad_times" when it records a passed test whose stop or start is not a  *)
(* number (the subtraction raises).                                        *)

KnownStatuses == {"passed", "failed", "broken", "skipped"}
Artifacts == KnownStatuses \cup {"unknown", "corrupt", "not_object", "bad_times"}

(* The status test_result.get("status", "unknown") reads in a file. *)
StatusOf(file) == IF file = "bad_times" THEN "passed" ELSE file

NoCounts == [total_tests |-> 0, passed |-> 0, failed |-> 0, broken |-> 0,
             skipped |-> 0, tests |-> <<>>]

(* results["total_tests"] += 1 *)
CountFile(r) == [r EXCEPT !.total_tests = @ + 1]

(* the if / elif chain over status *)
CountStatus(r, status) ==
    [r EXCEPT !.passed  = @ + (IF status = "passed"  THEN 1 ELSE 0),
              !.failed  = @ + (IF status = "failed"  THEN 1 ELSE 0),
              !.broken  = @ + (IF status = "broken"  THEN 1 ELSE 0),
              !.skipped = @ + (IF status = "skipped" THEN 1 ELSE 0)]

(* One whole turn of the loop over the files. *)
Bump(r, status) ==
    [CountStatus(CountFile(r), status) EXCEPT !.tests = Append(@, status)]

(* The except clause around the whole loop ends it at the first file that  *)
(* raises, keeping what was counted up to the statement that raised.       *)
RECURSIVE ParseFrom(_, _, _)
ParseFrom(files, i, results) ==
    IF i > Len(files) THEN results
    ELSE IF files[i] = "corrupt" THEN results
    ELSE IF files[i] = "not_object" THEN CountFile(results)
    ELSE IF files[i] = "bad_times"
    THEN CountStatus(CountFile(results), StatusOf(files[i]))
    ELSE ParseFrom(files, i + 1, Bump(results, StatusOf(files[i])))

ParseAllureResults(files) == ParseFrom(files, 1, NoCounts)

(* _parse_allure_results on its own: a directory is chosen and the         *)
(* function is applied to it.                                              *)

MaxFiles == 3

MissingDir == [exists |-> FALSE, files |-> <<>>]

Directories ==
    {MissingDir} \cup
    [exists : {TRUE}, files : UNION {[1..n -> Artifacts] : n \in 0..MaxFiles}]

(* list(results_dir.glob("*-result.json")): nothing for a directory that   *)
(* does not exist.                                                         *)
Glob(dir) == IF dir.exists THEN dir.files ELSE <<>>

NoParse == [none |-> TRUE]

ParseDirectory ==
    /\ UNCHANGED <<netVars, repairVars, correctVars, fixerVars, environ, limiterVars>>
    /\ ar_results = NoParse
    /\ ar_dir \in Directories
    /\ ar_results' = ParseAllureResults(Glob(ar_dir))
    /\ UNCHANGED ar_dir

InitAllureInput ==
    /\ ar_dir \in Directories
    /\ ar_results = NoParse

(* _parse_allure_results is not under study on its own. *)
NoAllure ==
    /\ ar_dir = [none |-> TRUE]
    /\ ar_results = NoParse

-----------------------------------------------------------------------------
(* CodeValidator.execute_code                                              *)

(* What the child process does: it exits with a status, outlives the       *)
(* timeout, or cannot be started (subprocess.run raises).                  *)
ExitCodes == {0, 1, 2, 5}
Runs == [kind : {"exit"}, code : ExitCodes]
        \cup [kind : {"timeout", "error"}, code : {0}]

(* The result files pytest may have left, by exit status: 0 means no test  *)
(* failed, 1 that one did; 2 and 5 are runs that collected nothing.        *)
FilesOf(run) ==
    CASE run.kind = "exit" /\ run.code = 0 ->
            {<<"passed">>, <<"passed", "passed">>, <<"passed", "skipped">>}
      [] run.kind = "exit" /\ run.code = 1 ->
            {<<"failed">>, <<"passed", "failed">>, <<"broken", "passed">>}
      [] run.kind = "timeout" -> {<<>>, <<"passed">>}
      [] OTHER -> {<<>>}

RuntimeErrors_TimeoutWithOutput(run) ==
    CASE run.kind = "exit" /\ run.code = 0 -> <<>>
      [] run.kind = "exit" /\ run.code = 2 -> <<"pytest: No tests collected", "output">>
      [] run.kind = "exit" /\ run.code = 5 -> <<"pytest: No tests found", "output">>
      [] run.kind = "exit" -> <<"pytest exit code", "output">>
      [] run.kind = "timeout" -> <<"Execution timeout", "output">>
      [] OTHER -> <<"Execution error">>

RuntimeErrors(run) ==
    CASE run.kind = "exit" /\ run.code = 0 -> <<>>
      [] run.kind = "exit" /\ run.code = 2 -> <<"pytest: No tests collected", "output">>
      [] run.kind = "exit" /\ run.code = 5 -> <<"pytest: No tests found", "output">>
      [] run.kind = "exit" -> <<"pytest exit code", "output">>
      [] run.kind = "timeout" -> <<"Execution timeout">>
      [] OTHER -> <<"Execution error">>

(* Does execute_code get as far as running the code? *)
Runnable_Always(code) == TRUE

Runnable(code) == ValidateSyntax(code) = <<>>

(* The CodeValidationResult of execute_code(code, run_with_pytest=True)    *)
(* when the child process behaves as `run` and leaves `files`.             *)
ExecuteCode(code, run, files) ==
    IF ~Runnable(code)
    THEN [is_valid |-> FALSE,
          can_execute |-> FALSE,
          syntax_errors |-> ValidateSyntax(code),
          runtime_errors |-> <<>>,
          allure_report_path |-> FALSE,
          allure_results |-> <<>>]
    ELSE [is_valid |-> Len(ValidateSyntax(code)) = 0,
          can_execute |-> run.kind = "exit" /\ run.code = 0,
          syntax_errors |-> ValidateSyntax(code),
          runtime_errors |-> RuntimeErrors(run),
          allure_report_path |-> TRUE,
          \* <<>>: None; otherwise the one parsed result
          allure_results |-> IF run.kind = "exit"
                             THEN <<ParseAllureResults(files)>> ELSE <<>>]

(* What execute_code does to the host: child processes started and still   *)
(* running, temporary source files and result directories made and still   *)
(* there.                                                                  *)
NoScratch == [spawned |-> 0, running |-> 0, files_made |-> 0, files_left |-> 0,
              dirs_made |-> 0, dirs_left |-> 0, child_env |-> {}]

(* The variables a host process may hold, and the tool-location hints.     *)
HostVariables == {"PATH", "OPENAI_API_KEY", "CHROME_BIN"}
ToolHints == {"CHROME_BIN", "CHROMEDRIVER_PATH"}

(* env = os.environ.copy(), then setdefault for the two hints *)
ChildEnv(host) == host \cup ToolHints

(* subprocess.run: does it start a child, and is the child gone when it    *)
(* returns or raises? It waits for the exit, and on TimeoutExpired it      *)
(* kills the child and waits before it re-raises.                          *)
Spawned(run) == IF run.kind = "error" THEN 0 ELSE 1

Reaped(run) == Spawned(run)

ScratchAfter(sc, code, run) ==
    IF ~Runnable(code) THEN sc
    ELSE [spawned    |-> sc.spawned + Spawned(run),
          running    |-> sc.running + Spawned(run) - Reaped(run),
          files_made |-> sc.files_made + 1,
          files_left |-> sc.files_left,    \* os.unlink in the finally clause
          dirs_made  |-> sc.dirs_made + 1,
          dirs_left  |-> sc.dirs_left + 1, \* the result directory stays
          \* the environment of the latest child
          child_env  |-> IF Spawned(run) = 1 THEN ChildEnv(environ)
                         ELSE sc.child_env]

-----------------------------------------------------------------------------
(* CodeValidator.validate_with_ai_retry                                    *)

(* str.strip() of a text given as lines: the empty lines at both ends and  *)
(* the indentation of the first line go; what is left of an all-blank text *)
(* is the empty string.                                                    *)
RECURSIVE DropBlankHead(_)
DropBlankHead(lines) ==
    IF lines = <<>> THEN <<>>
    ELSE IF IsBlank(Head(lines)) THEN DropBlankHead(Tail(lines))
    ELSE lines

RECURSIVE DropBlankTail(_)
DropBlankTail(lines) ==
    IF lines = <<>> THEN <<>>
    ELSE IF IsBlank(lines[Len(lines)])
         THEN DropBlankTail(SubSeq(lines, 1, Len(lines) - 1))
    ELSE lines

Strip(lines) ==
    LET body == DropBlankTail(DropBlankHead(lines)) IN
    IF body = <<>> THEN <<Blank>>
    ELSE <<[body[1] EXCEPT !.indent = 0]>> \o Tail(body)

(* text.split(fence)[1].split("```")[0]: what stands between the first     *)
(* fence and the next one (or the end of the text).                        *)
FirstIndex(lines, pattern) ==
    CHOOSE k \in 1..Len(lines) :
        /\ LineHas(lines[k], pattern)
        /\ \A j \in 1..(k - 1) : ~LineHas(lines[j], pattern)

RECURSIVE UpToFence(_)
UpToFence(lines) ==
    IF lines = <<>> THEN <<>>
    ELSE IF LineHas(Head(lines), "fence") THEN <<>>
    ELSE <<Head(lines)>> \o UpToFence(Tail(lines))

Fenced(lines, pattern) ==
    UpToFence(SubSeq(lines, FirstIndex(lines, pattern) + 1, Len(lines)))

(* "Clean markdown" *)
CleanMarkdown(fixed_code) ==
    IF Has(fixed_code, "fence python")
    THEN Strip(Fenced(fixed_code, "fence python"))
    ELSE IF Has(fixed_code, "fence")
    THEN Strip(Fenced(fixed_code, "fence"))
    ELSE fixed_code

(* The candidates a session starts from and the answers of the model.      *)
InitialCodes ==
    { <<L(0, "open"), L(1, "stmt")>>,                     \* parses
      <<L(0, "import_pytest"), L(0, "open"), L(1, "use_pytest")>>,
      <<L(0, "open"), L(0, "stmt")>>,                     \* body not indented
      <<L(0, "open"), L(1, "use_pytest")>>,               \* import missing, parses
      <<L(0, "use_pytest"), L(0, "bad")>>,                \* not repairable locally
      <<L(0, "bad")>>,
      <<L(0, "stmt"), L(0, "nul")>> }                     \* ast.parse raises ValueError

AiResponses ==
    { <<L(0, "open"), L(1, "stmt")>>,
      <<L(0, "stmt"), L(0, "fence_py"), L(0, "open"), L(1, "stmt"), L(0, "fence")>>,
      <<L(0, "fence"), L(0, "stmt"), L(0, "blank"), L(0, "fence")>>,
      <<L(0, "fence_py"), L(0, "bad")>>,
      <<L(0, "stmt"), L(0, "bad")>> }

NoValidation == [none |-> TRUE]
NoReturn == [none |-> TRUE]

Event(kind, code, outcome) ==
    [kind |-> kind, code |-> code, outcome |-> outcome, passed |-> 0]

(* History only: how an execution ended. *)
OutcomeOf(res, run) ==
    IF ~res.is_valid THEN "syntax"
    ELSE IF res.can_execute THEN "passed"
    ELSE IF run.kind = "timeout" THEN "timeout"
    ELSE IF run.kind = "error" THEN "error"
    ELSE "failed"

(* History only: the passed count of the structured results of a record,   *)
(* 0 when it has none.                                                     *)
PassedOf(res) ==
    IF res.allure_results = <<>> THEN 0 ELSE res.allure_results[1].passed

(* History only: the execution of `code` that gave `res`. *)
Ran(code, res, run) ==
    [Event("exec", code, OutcomeOf(res, run)) EXCEPT !.passed = PassedOf(res)]

ReturnDict(code, ok, count, res) ==
    [final_code |-> code, is_valid |-> ok, retries_count |-> count,
     validation_result |-> res]

(* Is the remote fix asked for after validate_and_fix returned `fix`?      *)
(* "If this was the last retry, return failure" *)
LastRetry_Late(r, m) == r > m

LastRetry(r, m) == r >= m

(* retries_count += 1, before the remote fix is asked for *)
CountRemoteFix_Free(count) == count

CountRemoteFix(count) == count + 1

LocalFixSuffices_Never(fix) == FALSE

LocalFixSuffices(fix) == fix.is_valid

(* One turn of the loop, from execute_code to a return, to the `continue`  *)
(* after a local fix, or to the await of the remote fix.                   *)
Iterate ==
    /\ UNCHANGED <<netVars, correctVars, toolVars>>
    /\ loop_pc = "loop"
    /\ \E run \in Runs : \E files \in FilesOf(run) :
        LET res == ExecuteCode(current_code, run, files)
            ran == Ran(current_code, res, run)
            fix == ValidateAndFix(current_code)
        IN  /\ last_result' = res
            /\ scratch' = ScratchAfter(scratch, current_code, run)
            /\ IF res.is_valid /\ res.can_execute
               THEN /\ returned' = ReturnDict(current_code, TRUE, retries_count, res)
                    /\ loop_pc' = "returned"
                    /\ trail' = Append(trail, ran)
                    /\ UNCHANGED <<current_code, retries_count, retry>>
               ELSE IF LastRetry(retry, max_ai_retries)
               THEN /\ returned' = ReturnDict(current_code, FALSE, retries_count, res)
                    /\ loop_pc' = "returned"
                    /\ trail' = Append(trail, ran)
                    /\ UNCHANGED <<current_code, retries_count, retry>>
               ELSE IF LocalFixSuffices(fix)
               THEN /\ current_code' = fix.fixed_code
                    /\ retry' = retry + 1
                    /\ trail' = trail \o <<ran, Event("local_fix", fix.fixed_code, "")>>
                    /\ UNCHANGED <<retries_count, loop_pc, returned>>
               ELSE /\ retries_count' = CountRemoteFix(retries_count)
                    /\ loop_pc' = "ai_wait"
                    /\ trail' = trail \o <<ran, Event("remote_call", current_code, "")>>
                    /\ UNCHANGED <<current_code, retry, returned>>
    /\ UNCHANGED max_ai_retries

(* chat_completion returns fixed_code. *)
AiReturns ==
    /\ UNCHANGED <<netVars, correctVars, toolVars>>
    /\ loop_pc = "ai_wait"
    /\ \E fixed_code \in AiResponses :
        /\ current_code' = CleanMarkdown(fixed_code)
        /\ trail' = Append(trail, Event("remote_reply", CleanMarkdown(fixed_code), ""))
    /\ retry' = retry + 1
    /\ loop_pc' = "loop"
    /\ UNCHANGED <<max_ai_retries, retries_count, last_result, returned, scratch>>

(* chat_completion raises: "Continue with current code". *)
AiRaises ==
    /\ UNCHANGED <<netVars, correctVars, toolVars>>
    /\ loop_pc = "ai_wait"
    /\ trail' = Append(trail, Event("remote_raise", current_code, ""))
    /\ retry' = retry + 1
    /\ loop_pc' = "loop"
    /\ UNCHANGED <<max_ai_retries, current_code, retries_count, last_result,
                   returned, scratch>>

MaxAiRetries == 2

InitSession ==
    /\ max_ai_retries \in 0..MaxAiRetries
    /\ current_code \in InitialCodes
    /\ retries_count = 0
    /\ retry = 0
    /\ loop_pc = "loop"
    /\ last_result = NoValidation
    /\ returned = NoReturn
    /\ scratch = NoScratch
    /\ trail = <<>>

(* No session: the breaker and client specifications leave these alone. *)
NoSession ==
    /\ max_ai_retries = 0
    /\ current_code = <<Blank>>
    /\ retries_count = 0
    /\ retry = 0
    /\ loop_pc = "returned"
    /\ last_result = NoValidation
    /\ returned = NoReturn
    /\ scratch = NoScratch
    /\ trail = <<>>

NoCalls ==
    /\ InitCalls
    /\ breaker = NewBreaker(1, 1)
    /\ client = [max_retries |-> 0, backoff_factor |-> 0, has_breaker |-> FALSE]
    /\ endpoint = {}
    /\ callers = {}

-----------------------------------------------------------------------------
(* generate_and_correct_test (generate_self_correcting_test.py)            *)
(*                                                                         *)
(* One action is one uninterrupted run between the awaits of the           *)
(* coroutine: the calls of the model and asyncio.sleep(2).                 *)

(* max_attempts = 3 *)
MaxAttempts == 3

(* What the model answers: the code is used as it comes, markdown fences   *)
(* included.                                                               *)
GeneratedCodes ==
    { <<L(0, "open"), L(1, "stmt")>>,
      <<L(0, "import_pytest"), L(0, "open"), L(1, "use_pytest")>>,
      <<L(0, "fence_py"), L(0, "open"), L(1, "stmt"), L(0, "fence")>> }

(* best_results is None or results.get('passed', 0) >                      *)
(* best_results.get('passed', 0)                                           *)
Better_OrEqual(results, best) ==
    best = <<>> \/ results.passed >= best[1].passed

Better(results, best) ==
    best = <<>> \/ results.passed > best[1].passed

(* After the loop: "Save the best version" and the return value. *)
GcFinish(code_now, results_now) ==
    /\ gc_pc' = "returned"
    /\ gc_success' = IF code_now # <<>> /\ results_now[1].passed > 0
                     THEN "True" ELSE "False"

(* The top of the loop for attempt k, up to the call of the model: the     *)
(* prompt of a correction reads best_results.get(...), which raises        *)
(* AttributeError while best_results is None.                              *)
GcTop(k, code_now, results_now) ==
    IF k >= MaxAttempts THEN GcFinish(code_now, results_now) /\ UNCHANGED gc_attempt
    ELSE /\ gc_attempt' = k
         /\ gc_success' = gc_success
         /\ gc_pc' = IF k > 0 /\ results_now = <<>> THEN "raised" ELSE "await_ai"

(* The model returns `code`: it is saved, executed, compared with the      *)
(* best so far; then the loop breaks, pauses, or ends.                     *)
GcAnswer ==
    /\ UNCHANGED <<netVars, sessionVars, toolVars>>
    /\ gc_pc = "await_ai"
    /\ \E code \in GeneratedCodes : \E run \in Runs : \E files \in FilesOf(run) :
        LET execution == ExecuteCode(code, run, files)
            has_results == execution.allure_results # <<>>
            results == execution.allure_results[1]
            improves == has_results /\ Better(results, best_results)
            code_now == IF improves THEN <<code>> ELSE best_code
            results_now == IF improves THEN <<results>> ELSE best_results
        IN  /\ gc_saved' = Append(gc_saved, code)
            /\ gc_execution' = execution
            /\ scratch' = ScratchAfter(scratch, code, run)
            /\ best_code' = code_now
            /\ best_results' = results_now
            /\ IF improves /\ results.passed = results.total_tests
               THEN GcFinish(code_now, results_now) /\ UNCHANGED gc_attempt
               ELSE IF gc_attempt < MaxAttempts - 1
               THEN /\ gc_pc' = "pause"
                    /\ UNCHANGED <<gc_attempt, gc_success>>
               ELSE GcTop(gc_attempt + 1, code_now, results_now)

(* generate_ui_tests returns nothing with a "code" in it: `continue`. *)
GcNoCode ==
    /\ UNCHANGED <<netVars, repairVars, toolVars>>
    /\ gc_pc = "await_ai"
    /\ gc_attempt = 0
    /\ GcTop(gc_attempt + 1, best_code, best_results)
    /\ UNCHANGED <<best_code, best_results, gc_execution, gc_saved>>

(* The call of the model raises: nothing in the function catches it. *)
GcRaises ==
    /\ UNCHANGED <<netVars, repairVars, toolVars>>
    /\ gc_pc = "await_ai"
    /\ gc_pc' = "raised"
    /\ UNCHANGED <<gc_attempt, best_code, best_results, gc_execution, gc_saved,
                   gc_success>>

(* asyncio.sleep(2) returns: on to the next attempt. *)
GcWake ==
    /\ UNCHANGED <<netVars, repairVars, toolVars>>
    /\ gc_pc = "pause"
    /\ GcTop(gc_attempt + 1, best_code, best_results)
    /\ UNCHANGED <<best_code, best_results, gc_execution, gc_saved>>

InitCorrection ==
    /\ gc_attempt = 0
    /\ gc_pc = "await_ai"
    /\ best_code = <<>>
    /\ best_results = <<>>
    /\ gc_execution = NoValidation
    /\ gc_saved = <<>>
    /\ gc_success = "none"

(* The script is not run. *)
NoCorrection ==
    /\ gc_attempt = 0
    /\ gc_pc = "returned"
    /\ best_code = <<>>
    /\ best_results = <<>>
    /\ gc_execution = NoValidation
    /\ gc_saved = <<>>
    /\ gc_success = "none"

(* _apply_common_fixes on its own: a text and diagnostics are chosen, and  *)
(* the function is applied to the text, then to what it returned.          *)

MaxLines == 2
MaxApplications == 2

FixerLines ==
    {Blank} \cup
    [indent : {0, 1},
     text : {"stmt", "open", "use_pytest", "import_pytest", "use_unittest",
             "deco_allure", "import_allure", "use_severity", "import_severity"}]

FixerCodes == UNION {[1..n -> FixerLines] : n \in 1..MaxLines}

(* errors: what validate_syntax says of the text, nothing, or a complaint  *)
(* about indentation.                                                      *)
FixerErrors(code) ==
    {ValidateSyntax(code), <<>>, <<SyntaxErr("expected an indented block", 1)>>}

ApplyFixes ==
    /\ UNCHANGED <<netVars, repairVars, correctVars, environ, limiterVars, allureVars>>
    /\ fx_applied < MaxApplications
    /\ fx_applied >= 0
    /\ LET r == ApplyCommonFixes(fx_code, fx_errors)
       IN  /\ fx_before' = fx_code
           /\ fx_code' = r.code
           /\ fx_fixes' = r.fixes
    /\ fx_applied' = fx_applied + 1
    /\ UNCHANGED fx_errors

InitFixerInput ==
    /\ fx_code \in FixerCodes
    /\ fx_errors \in FixerErrors(fx_code)
    /\ fx_before = <<>>
    /\ fx_fixes = <<>>
    /\ fx_applied = 0

(* The host process: what its environment holds. *)
InitHost == environ \in SUBSET HostVariables

(* The environment plays no part. *)
NoHost == environ = {}

(* _apply_common_fixes is not under study on its own. *)
NoFixer ==
    /\ fx_code = <<>>
    /\ fx_errors = <<>>
    /\ fx_before = <<>>
    /\ fx_fixes = <<>>
    /\ fx_applied = -1

-----------------------------------------------------------------------------
(* RateLimiter.check_limit (app/core/deps.py)                              *)

NumKeys == 2
MaxLimit == 2
MaxCalls == 4

Keys == 1..NumKeys

(* What the Redis store does during one call: it serves it, or one of the  *)
(* two commands raises.                                                    *)
RedisBehaviours == {"ok", "incr_raises", "expire_raises"}

(* except Exception: does the handler of check_limit catch `exc`?          *)
(* HTTPException is an Exception like the errors of the Redis client.      *)
Swallowed(exc) == exc \in {"HTTPException", "RedisError"}

(* How check_limit ends for its caller when its try block raises `exc`     *)
(* ("none": it raises nothing).                                            *)
Ending(exc) ==
    CASE exc = "none" -> "passed"
      [] Swallowed(exc) -> IF exc = "HTTPException" THEN "passed" ELSE "fail_open"
      [] exc = "HTTPException" -> "429"
      [] OTHER -> "raised"

CheckLimit(k) ==
    /\ UNCHANGED <<netVars, repairVars, correctVars, fixerVars, environ, allureVars>>
    /\ rl_calls[k] < MaxCalls
    /\ rl_calls' = [rl_calls EXCEPT ![k] = @ + 1]
    /\ \E redis \in RedisBehaviours :
        IF redis = "incr_raises"
        THEN /\ rl_last' = [rl_last EXCEPT ![k] = Ending("RedisError")]
             /\ UNCHANGED <<rl_count, rl_ttl>>
        ELSE LET current == rl_count[k] + 1 IN
             /\ rl_count' = [rl_count EXCEPT ![k] = current]
             /\ IF current = 1 /\ redis = "expire_raises"
                THEN /\ rl_last' = [rl_last EXCEPT ![k] = Ending("RedisError")]
                     /\ UNCHANGED rl_ttl
                ELSE /\ rl_ttl' = [rl_ttl EXCEPT ![k] = IF current = 1 THEN TRUE ELSE @]
                     /\ rl_last' = [rl_last EXCEPT ![k] =
                            Ending(IF current > rl_limit THEN "HTTPException"
                                   ELSE "none")]
    /\ UNCHANGED rl_limit

(* The window of the key is over: Redis drops the key. *)
Expire(k) ==
    /\ UNCHANGED <<netVars, repairVars, correctVars, fixerVars, environ, allureVars>>
    /\ rl_ttl[k]
    /\ rl_count' = [rl_count EXCEPT ![k] = 0]
    /\ rl_ttl' = [rl_ttl EXCEPT ![k] = FALSE]
    /\ rl_calls' = [rl_calls EXCEPT ![k] = 0]
    /\ rl_last' = [rl_last EXCEPT ![k] = "none"]
    /\ UNCHANGED rl_limit

InitLimits ==
    /\ rl_limit \in 1..MaxLimit
    /\ rl_count = [k \in Keys |-> 0]
    /\ rl_ttl = [k \in Keys |-> FALSE]
    /\ rl_calls = [k \in Keys |-> 0]
    /\ rl_last = [k \in Keys |-> "none"]

(* The limiter is not under study. *)
NoLimiter ==
    /\ rl_limit = 0
    /\ rl_count = [k \in Keys |-> 0]
    /\ rl_ttl = [k \in Keys |-> FALSE]
    /\ rl_calls = [k \in Keys |-> MaxCalls]
    /\ rl_last = [k \in Keys |-> "none"]

NoTools == NoFixer /\ NoLimiter /\ NoAllure

InitLimiter ==
    InitLimits /\ NoFixer /\ NoAllure /\ NoSession /\ NoCalls /\ NoCorrection /\ NoHost

NextLimiter ==
    \/ \E k \in Keys : CheckLimit(k)
    \/ \E k \in Keys : Expire(k)

SpecLimiter == InitLimiter /\ [][NextLimiter]_vars

-----------------------------------------------------------------------------
(* _apply_common_fixes applied to a text of its own. *)
InitFixer ==
    InitFixerInput /\ NoSession /\ NoCalls /\ NoCorrection /\ NoHost /\ NoLimiter
        /\ NoAllure

SpecFixer == InitFixer /\ [][ApplyFixes]_vars

(* _parse_allure_results applied to a directory of its own. *)
InitAllure ==
    InitAllureInput /\ NoFixer /\ NoLimiter /\ NoSession /\ NoCalls /\ NoCorrection
        /\ NoHost

SpecAllure == InitAllure /\ [][ParseDirectory]_vars

(* One session of validate_with_ai_retry. *)
InitRepair == InitSession /\ NoCalls /\ NoCorrection /\ NoTools /\ InitHost

NextRepair == Iterate \/ AiReturns \/ AiRaises

SpecRepair == InitRepair /\ [][NextRepair]_vars

(* The same session when every call it waits for comes back: pytest exits  *)
(* or is killed at the deadline, chat_completion returns or raises.        *)
SpecRepairLive == SpecRepair /\ WF_vars(NextRepair)

(* One run of generate_and_correct_test. *)
InitCorrect == InitCorrection /\ NoSession /\ NoCalls /\ NoTools /\ InitHost

NextCorrect == GcAnswer \/ GcNoCode \/ GcRaises \/ GcWake

SpecCorrect == InitCorrect /\ [][NextCorrect]_vars

-----------------------------------------------------------------------------
(* Specifications of the breaker and of the client                        *)

(* A breaker used by concurrent callers; the wrapped operation is one      *)
(* request (max_retries = 0) to an endpoint that answers 200 or 500: the   *)
(* breaker treats every exception of the wrapped call alike.               *)
InitBreaker ==
    /\ NoSession
    /\ NoCorrection
    /\ NoTools
    /\ NoHost
    /\ InitCalls
    /\ \E th \in 1..MaxThreshold, rt \in 1..MaxRecovery :
           breaker = NewBreaker(th, rt)
    /\ client = [max_retries |-> 0, backoff_factor |-> 0, has_breaker |-> TRUE]
    /\ endpoint = {o \in Outcomes : o.kind = "response" /\ o.status \in {200, 500}}
    /\ callers = Procs

NextBreaker ==
    \/ \E p \in Procs : Post(p)
    \/ \E p \in Procs : Respond(p)
    \/ \E p \in Procs : Cancel(p)
    \/ \E p \in Procs : Return(p)
    \/ Tick

SpecBreaker == InitBreaker /\ [][NextBreaker]_vars

(* make_request_with_retry called directly (a client without a breaker).   *)
InitRetry ==
    /\ NoSession
    /\ NoCorrection
    /\ NoTools
    /\ NoHost
    /\ InitCalls
    /\ breaker = NewBreaker(1, 1)
    /\ \E mr \in 0..MaxRetries, bf \in 0..MaxBackoff :
           client = [max_retries |-> mr, backoff_factor |-> bf, has_breaker |-> FALSE]
    /\ endpoint = Outcomes
    /\ callers = {1}

NextRetry ==
    \/ \E p \in Procs : Post(p)
    \/ \E p \in Procs : Respond(p)
    \/ \E p \in Procs : Wake(p)
    \/ \E p \in Procs : Cancel(p)
    \/ \E p \in Procs : Return(p)
    \/ Tick

SpecRetry == InitRetry /\ [][NextRetry]_vars

(* RetryableHttpClient with a circuit breaker: the wrapped operation is   *)
(* the whole retry loop. One caller issues call after call.               *)
InitClient ==
    /\ NoSession
    /\ NoCorrection
    /\ NoTools
    /\ NoHost
    /\ InitCalls
    /\ \E th \in 1..MaxThreshold, rt \in 1..MaxRecovery :
           breaker = NewBreaker(th, rt)
    /\ \E mr \in 0..MaxRetries, bf \in 0..MaxBackoff :
           client = [max_retries |-> mr, backoff_factor |-> bf, has_breaker |-> TRUE]
    /\ endpoint = Outcomes
    /\ callers = {1}

SpecClient == InitClient /\ [][NextRetry]_vars

-----------------------------------------------------------------------------
(* Properties of the circuit breaker and of the retrying client            *)

Is4xx(o) == o.kind = "response" /\ 400 <= o.status /\ o.status <= 499
Is5xx(o) == o.kind = "response" /\ 500 <= o.status /\ o.status <= 599
IsNetworkError(o) == o.kind = "network"

AllNetworkErrors(p) ==
    /\ replies[p] # <<>>
    /\ \A i \in 1..Len(replies[p]) : IsNetworkError(replies[p][i])

All5xx(p) ==
    /\ replies[p] # <<>>
    /\ \A i \in 1..Len(replies[p]) : Is5xx(replies[p][i])

(* The step in which the call of p ends with a failure of the wrapped      *)
(* operation / with its success.                                           *)
FailureReturns(p) ==
    pc[p] = "request" /\ pc'[p] = "done" /\ result'[p].kind = "http_exception"
SuccessReturns(p) ==
    pc[p] = "request" /\ pc'[p] = "done" /\ result'[p].kind = "ok"

(* C2: with failure threshold T, the failure that makes T failed calls in  *)
(* a row (no success in between) leaves the breaker OPEN; and a call made  *)
(* while the breaker is OPEN and less than recovery_timeout after the last *)
(* failure raises the breaker-open error and sends nothing to the wrapped  *)
(* operation.                                                              *)
C2_OpensAtThresholdAndFailsFast ==
    /\ [][(streak' = streak + 1 /\ streak' >= breaker.failure_threshold)
            => breaker'.state = "OPEN"]_vars
    /\ [](\A p \in Procs :
            entry[p] = "open_wait"
                => pc[p] = "done" /\ result[p] = BreakerOpenError /\ sent[p] = 0)

C2_Witness ==
    \E p \in Procs :
        /\ breaker.failure_threshold = 2
        /\ streak = 2
        /\ breaker.state = "OPEN"
        /\ entry[p] = "open_wait"
        /\ pc[p] = "done"
        /\ result[p] = BreakerOpenError

(* C3: while the HALF_OPEN probe is in flight, no other call on the same   *)
(* breaker reaches the wrapped operation.                                  *)
C3_OnlyTheProbeIsLetThrough ==
    \A q \in Procs : entry[q] = "half_probe" => sent[q] = 0

(* C4: a call whose wrapped operation fails while the breaker is HALF_OPEN *)
(* leaves the breaker OPEN when it returns.                                *)
C4_HalfOpenFailureOpens ==
    [][\A p \in Procs :
          (FailureReturns(p) /\ breaker.state = "HALF_OPEN")
              => breaker'.state = "OPEN"]_vars

(* C5: the first call made once recovery_timeout has elapsed on an OPEN    *)
(* breaker reaches the wrapped operation, and if the operation succeeds    *)
(* the caller gets its result, the breaker is CLOSED and failure_count 0.  *)
C5_RecoveryClosesTheBreaker ==
    [][\A p \in Procs :
          /\ entry'[p] = "open_reset" => sent'[p] >= 1
          /\ (entry[p] = "open_reset" /\ SuccessReturns(p))
                => /\ result'[p] = Returned
                   /\ breaker'.state = "CLOSED"
                   /\ breaker'.failure_count = 0]_vars

(* C6: a 4xx response is the last thing the call does: it is the last      *)
(* reply, no request and no backoff follow it, and the call has raised an  *)
(* HTTPException with that status; a 4xx first reply means 1 request.      *)
C6_ClientErrorEndsTheCall ==
    \A p \in Procs : \A i \in 1..Len(replies[p]) :
        Is4xx(replies[p][i])
            => /\ i = Len(replies[p])
               /\ pc[p] = "done"
               /\ result[p] = HTTPException(replies[p][i].status)
               /\ sent[p] = i
               /\ Len(delays[p]) = i - 1

C6_Witness ==
    \E p \in Procs :
        /\ pc[p] = "done"
        /\ client.max_retries = 2
        /\ Len(replies[p]) = 1
        /\ Is4xx(replies[p][1])
        /\ sent[p] = 1
        /\ delays[p] = <<>>

(* C7: when every attempt fails with a timeout or connection error the     *)
(* call sends exactly max_retries + 1 requests and raises 503; no call     *)
(* ever sends more than max_retries + 1 requests; a successful attempt is  *)
(* the last one.                                                           *)
C7_RetryBudget ==
    \A p \in Procs :
        /\ sent[p] <= client.max_retries + 1
        /\ (pc[p] = "done" /\ result[p].kind = "http_exception"
                /\ AllNetworkErrors(p))
              => /\ sent[p] = client.max_retries + 1
                 /\ result[p] = HTTPException(503)
        /\ \A i \in 1..Len(replies[p]) :
              IsSuccess(replies[p][i])
                  => /\ i = Len(replies[p])
                     /\ pc[p] = "done"
                     /\ result[p] = Returned
                     /\ sent[p] = i

C7_Witness ==
    \E p \in Procs :
        /\ pc[p] = "done"
        /\ client.max_retries = 2
        /\ AllNetworkErrors(p)
        /\ sent[p] = 3
        /\ result[p] = HTTPException(503)

(* C8 as claimed: when every attempt fails with a 5xx response the call    *)
(* sends max_retries + 1 requests and raises 503.                          *)
C8_ServerErrorsSurfaceAs503 ==
    \A p \in Procs :
        (pc[p] = "done" /\ result[p].kind = "http_exception"
            /\ All5xx(p))
          => /\ sent[p] = client.max_retries + 1
             /\ result[p] = HTTPException(503)

(* C8 as amended: when every attempt fails with a 5xx response the call    *)
(* sends max_retries + 1 requests and raises an HTTPException carrying the *)
(* status of the last response (503 only if that response was a 503).      *)
C8_ServerErrorsSurfaceWithLastStatus ==
    \A p \in Procs :
        (pc[p] = "done" /\ result[p].kind = "http_exception"
            /\ All5xx(p))
          => /\ sent[p] = client.max_retries + 1
             /\ Len(replies[p]) = client.max_retries + 1
             /\ result[p] = HTTPException(replies[p][Len(replies[p])].status)

C8_Witness ==
    \E p \in Procs :
        /\ pc[p] = "done"
        /\ client.max_retries = 2
        /\ All5xx(p)
        /\ Len(replies[p]) = 3
        /\ replies[p][1].status = 503
        /\ replies[p][3].status = 500
        /\ result[p] = HTTPException(500)

(* C9: with a circuit breaker the whole retrying call is the gated         *)
(* operation: a post/get made while the breaker is OPEN inside its         *)
(* recovery window sends no HTTP request, and a call that fails after      *)
(* using up all its attempts adds exactly 1 to failure_count.              *)
C9_WholeRetryingCallIsGated ==
    /\ [](\A p \in Procs : entry[p] = "open_wait" => sent[p] = 0 /\ replies[p] = <<>>)
    /\ [][\A p \in Procs :
            (FailureReturns(p) /\ client.has_breaker)
                => breaker'.failure_count = breaker.failure_count + 1]_vars

C9_Witness ==
    \E p \in Procs :
        /\ client.max_retries = 2
        /\ pc[p] = "done"
        /\ Len(replies[p]) = 3
        /\ result[p].kind = "http_exception"
        /\ breaker.failure_count = 1
        /\ breaker.failure_threshold = 2

-----------------------------------------------------------------------------
(* Properties of the validator and of the repair loop                      *)

(* The executions recorded so far, and those of a text that parses.        *)
Execs == {i \in 1..Len(trail) : trail[i].kind = "exec"}
ParsedExecs == {i \in Execs : ValidateSyntax(trail[i].code) = <<>>}
LastExec == CHOOSE i \in Execs : \A j \in Execs : j <= i

(* C1: in validate_with_ai_retry, when the execution of a candidate that   *)
(* parses fails (nonzero exit status or timeout) and the retry budget is   *)
(* not used up, the loop issues a remote fix call next, and the execution  *)
(* after it is of the code that call returned.                             *)
C1_FailedRunGoesToRemoteFix ==
    \A i \in Execs :
        (trail[i].outcome \in {"failed", "timeout"} /\ i < Len(trail))
            => /\ trail[i + 1].kind = "remote_call"
               /\ (i + 3 <= Len(trail) /\ trail[i + 2].kind = "remote_reply")
                      => /\ trail[i + 3].kind = "exec"
                         /\ trail[i + 3].code = trail[i + 2].code

(* C10: a text that fails to parse gets at least one diagnostic from       *)
(* validate_syntax and is never run: execute_code, inside                  *)
(* validate_with_ai_retry as well, returns is_valid = False,               *)
(* can_execute = False and no runtime diagnostics for it, and starts no    *)
(* child process, writes no temporary file and makes no result directory:  *)
(* those are as many as the executions of texts that parse.                *)
C10_UnparseableIsNeverRun ==
    /\ scratch.files_made = Cardinality(ParsedExecs)
    /\ scratch.dirs_made = Cardinality(ParsedExecs)
    /\ scratch.spawned <= Cardinality(ParsedExecs)
    /\ (Execs # {} /\ LastExec \notin ParsedExecs)
          => /\ Len(ValidateSyntax(trail[LastExec].code)) >= 1
             /\ last_result.is_valid = FALSE
             /\ last_result.can_execute = FALSE
             /\ Len(last_result.syntax_errors) >= 1
             /\ last_result.runtime_errors = <<>>

C10_Witness ==
    /\ Execs # {}
    /\ \E i \in 1..Len(trail) : trail[i].kind = "remote_reply"
    /\ LastExec \notin ParsedExecs
    /\ LastExec > 1
    /\ last_result.is_valid = FALSE
    /\ scratch = NoScratch

(* C11: an execution whose child process outlives the deadline returns a   *)
(* record with exactly one runtime diagnostic, the timeout one, and        *)
(* can_execute = False; no child process is running when it returns.       *)
C11_TimeoutIsOneDiagnostic ==
    /\ scratch.running = 0
    /\ (Execs # {} /\ trail[LastExec].outcome = "timeout")
          => /\ last_result.runtime_errors = <<"Execution timeout">>
             /\ last_result.can_execute = FALSE
             /\ last_result.is_valid = TRUE

C11_Witness ==
    /\ Execs # {}
    /\ trail[LastExec].outcome = "timeout"
    /\ Len(last_result.runtime_errors) = 1
    /\ scratch.spawned >= 1
    /\ scratch.running = 0

(* C12: on every exit path of execute_code the temporary source file and   *)
(* the result directory the call made are gone when it returns.            *)
C12_ScratchIsRemoved ==
    /\ scratch.files_left = 0
    /\ scratch.dirs_left = 0

(* C13: validate_with_ai_retry returns is_valid = True only with a record  *)
(* that has no runtime diagnostics and, when it has structured results,    *)
(* passed = total_tests.                                                   *)
C13_SuccessMeansAllPassed ==
    (returned # NoReturn /\ returned.is_valid)
        => /\ returned.validation_result.runtime_errors = <<>>
           /\ \A k \in 1..Len(returned.validation_result.allure_results) :
                 LET r == returned.validation_result.allure_results[k]
                 IN  r.passed = r.total_tests

(* C14: a remote fix call that raises ends the session at once, without    *)
(* success: nothing is executed and no remote call is made after it.       *)
C14_RemoteErrorEndsTheSession ==
    \A i \in 1..Len(trail) :
        trail[i].kind = "remote_raise"
            => /\ i = Len(trail)
               /\ loop_pc = "returned"
               /\ returned # NoReturn
               /\ ~returned.is_valid

(* C15: when validate_with_ai_retry ends without success, no candidate     *)
(* executed in the session had a higher passed count than the final_code   *)
(* it returns had in one of its executions: a later, worse candidate has   *)
(* not displaced an earlier, better one.                                   *)
C15_FinalCodeIsTheBestSeen ==
    (returned # NoReturn /\ ~returned.is_valid)
        => \A i \in Execs :
               \E j \in Execs :
                   /\ trail[j].code = returned.final_code
                   /\ trail[j].passed >= trail[i].passed

C15_Witness ==
    /\ returned # NoReturn
    /\ ~returned.is_valid
    /\ \E i \in Execs : trail[i].code # returned.final_code
    /\ \E j \in Execs : trail[j].code = returned.final_code /\ trail[j].passed >= 1
    /\ trail[LastExec].passed = 0

-----------------------------------------------------------------------------
(* Properties of generate_and_correct_test                                 *)

(* C16: best_code and best_results are replaced only when there was no     *)
(* best yet or by an attempt whose passed count is strictly greater than   *)
(* the current best's; the passed count of best_results never decreases.   *)
C16_BestNeverRegresses ==
    [][(best_results' # best_results \/ best_code' # best_code)
          => /\ best_results' # <<>> /\ best_code' # <<>>
             /\ \/ best_results = <<>> /\ best_code = <<>>
                \/ best_results'[1].passed > best_results[1].passed]_vars

C16_Witness ==
    /\ best_results # <<>>
    /\ gc_execution # NoValidation
    /\ gc_execution.allure_results # <<>>
    /\ gc_execution.allure_results[1].passed <= best_results[1].passed
    /\ gc_execution.allure_results[1] # best_results[1]
    /\ gc_saved[Len(gc_saved)] # best_code[1]
    /\ Len(gc_saved) >= 2

-----------------------------------------------------------------------------
(* Properties of _apply_common_fixes                                       *)

(* C17: a fix that _apply_common_fixes reports has changed the text, and   *)
(* applied to its own output with the same diagnostics it returns that     *)
(* text unchanged with an empty list of fixes.                             *)
C17_FixerIsIdempotent ==
    /\ (fx_applied >= 1 /\ fx_fixes # <<>>) => fx_code # fx_before
    /\ fx_applied >= 2 => (fx_code = fx_before /\ fx_fixes = <<>>)

-----------------------------------------------------------------------------
(* Properties of the child process                                         *)

(* C18: the child process of execute_code gets only the allow-listed       *)
(* variables, the tool-location hints: no other variable of the host       *)
(* environment is in its environment.                                      *)
C18_ChildSeesOnlyTheAllowList ==
    scratch.child_env \subseteq ToolHints

-----------------------------------------------------------------------------
(* Properties of the rate limiter                                          *)

(* C19: once the check_limit calls for a key inside one window are more    *)
(* than the limit, the call raises 429 to its caller; only a failure of    *)
(* the Redis store lets a call through.                                    *)
C19_LimitIsEnforced ==
    \A k \in Keys :
        rl_calls[k] > rl_limit => rl_last[k] \in {"429", "fail_open"}

-----------------------------------------------------------------------------
(* Termination of the repair loop                                          *)

RemoteCalls == {i \in 1..Len(trail) : trail[i].kind = "remote_call"}

(* C20: validate_with_ai_retry returns, whatever the child process and the *)
(* remote service do; it has then executed at most max_retries + 1 times   *)
(* and called the remote fix at most max_retries times, and the            *)
(* validation_result it returns is the record of the execution of the      *)
(* final_code it returns.                                                  *)
C20_RepairTerminates ==
    /\ [](/\ Cardinality(Execs) <= max_ai_retries + 1
          /\ Cardinality(RemoteCalls) <= max_ai_retries
          /\ returned # NoReturn
                => /\ loop_pc = "returned"
                   /\ returned.validation_result = last_result
                   /\ trail[LastExec].code = returned.final_code
                   /\ LastExec = Len(trail)
                   /\ returned.retries_count = Cardinality(RemoteCalls))
    /\ <>(loop_pc = "returned" /\ returned # NoReturn)

C20_Witness ==
    /\ returned # NoReturn
    /\ max_ai_retries = 2
    /\ Cardinality(Execs) = 3
    /\ Cardinality(RemoteCalls) = 2
    /\ \E i \in 1..Len(trail) : trail[i].kind = "remote_raise"
    /\ \E i \in 1..Len(trail) : trail[i].kind = "remote_reply"


-----------------------------------------------------------------------------
(* The budget of the repair loop                                           *)

LocalFixes == {i \in 1..Len(trail) : trail[i].kind = "local_fix"}

(* The execution that follows execution i, 0 when there is none yet. *)
NextExec(i) ==
    IF \E j \in Execs : j > i
    THEN CHOOSE j \in Execs : j > i /\ \A k \in Execs : k > i => j <= k
    ELSE 0

(* C21: after an execution that failed or timed out, the next execution is *)
(* of another text: the same unchanged candidate is not executed again.    *)
C21_UnchangedCandidateIsNotRerun ==
    \A i \in Execs :
        (trail[i].outcome \in {"failed", "timeout"} /\ NextExec(i) # 0)
            => trail[NextExec(i)].code # trail[i].code

(* C22: retries_count is the number of remote fix calls issued so far,     *)
(* those that raised included, and of nothing else (a turn of the loop     *)
(* that ends in a local fix does not add to it); it lies in                *)
(* 0..max_retries; and the retries_count that validate_with_ai_retry       *)
(* returns is that number.                                                 *)
C22_RetriesCountIsRemoteCalls ==
    /\ retries_count = Cardinality(RemoteCalls)
    /\ retries_count \in 0..max_ai_retries
    /\ returned # NoReturn
           => /\ returned.retries_count = Cardinality(RemoteCalls)
              /\ returned.retries_count \in 0..max_ai_retries

C22_Witness ==
    /\ returned # NoReturn
    /\ returned.retries_count = 1
    /\ max_ai_retries = 2
    /\ \E i \in 1..Len(trail) : trail[i].kind = "remote_reply"
    /\ returned.is_valid

(* C23: a turn of the loop that ends in a local fix uses up none of the    *)
(* budget of remote fix calls: with k local fixes applied, the calls made  *)
(* and the turns of the loop still to come add up to max_retries; so a     *)
(* session that ends without success after a local fix has made            *)
(* max_retries remote calls or never needed one more.                      *)
C23_LocalFixesAreFree ==
    loop_pc = "loop"
        => Cardinality(RemoteCalls) + (max_ai_retries - retry) >= max_ai_retries


-----------------------------------------------------------------------------
(* The backoff of make_request_with_retry                                  *)

(* The delays of the call of p are those of its failed attempts 0, 1, ...: *)
(* the k-th is backoff_factor * 2^(k-1); none follows the final attempt    *)
(* (there are at most max_retries of them, one for an attempt that has     *)
(* failed), and none follows a successful attempt.                         *)
BackoffIsExponential(p) ==
    /\ \A k \in 1..Len(delays[p]) :
           delays[p][k] = client.backoff_factor * Pow2(k - 1)
    /\ Len(delays[p]) <= client.max_retries
    /\ Len(delays[p]) <= Len(replies[p])
    /\ \A k \in 1..Len(replies[p]) :
           IsSuccess(replies[p][k]) => k = Len(replies[p]) /\ Len(delays[p]) = k - 1

(* C24 as claimed: the delay slept after failed attempt k is               *)
(* backoff_factor * 2^k, none is slept after the final or a successful     *)
(* attempt, and the delays of one call are strictly increasing.            *)
C24_DelaysStrictlyIncrease ==
    \A p \in Procs :
        /\ BackoffIsExponential(p)
        /\ \A k \in 2..Len(delays[p]) : delays[p][k] > delays[p][k - 1]

(* C24 as amended: the delay slept after failed attempt k is               *)
(* backoff_factor * 2^k, none is slept after the final or a successful     *)
(* attempt; each delay is twice the one before it, so the delays are       *)
(* strictly increasing when backoff_factor > 0 and all 0 when it is 0.     *)
C24_DelaysDouble ==
    \A p \in Procs :
        /\ BackoffIsExponential(p)
        /\ \A k \in 2..Len(delays[p]) :
               /\ delays[p][k] = 2 * delays[p][k - 1]
               /\ client.backoff_factor > 0 => delays[p][k] > delays[p][k - 1]
               /\ client.backoff_factor = 0 => delays[p][k] = 0

C24_Witness ==
    \E p \in Procs :
        /\ pc[p] = "done"
        /\ client.backoff_factor > 0
        /\ Len(delays[p]) = 2
        /\ delays[p][2] > delays[p][1]
        /\ Len(replies[p]) = 3


-----------------------------------------------------------------------------
(* Properties of _parse_allure_results                                     *)

(* The files of the directory from which a status can be read, and those   *)
(* that record `status`.                                                   *)
Readable(dir) ==
    {i \in 1..Len(Glob(dir)) : Glob(dir)[i] \notin {"corrupt", "not_object"}}

WithStatus(dir, status) == {i \in Readable(dir) : StatusOf(Glob(dir)[i]) = status}

(* C25: the result counts the artifacts of the directory: total_tests is   *)
(* the number of artifacts (those a status can be read from, at least),    *)
(* and passed, failed, broken and skipped are the numbers of artifacts     *)
(* with that status; a missing or empty directory gives the all-zero       *)
(* result.                                                                 *)
C25_CountsAreThoseOfTheDirectory ==
    ar_results # NoParse
        => /\ ar_results.total_tests = Cardinality(Readable(ar_dir))
           /\ ar_results.passed = Cardinality(WithStatus(ar_dir, "passed"))
           /\ ar_results.failed = Cardinality(WithStatus(ar_dir, "failed"))
           /\ ar_results.broken = Cardinality(WithStatus(ar_dir, "broken"))
           /\ ar_results.skipped = Cardinality(WithStatus(ar_dir, "skipped"))
           /\ Glob(ar_dir) = <<>> => ar_results = NoCounts

(* C30: in every result, total_tests is the sum of passed, failed, broken  *)
(* and skipped and the number of entries in tests, whatever the directory  *)
(* holds.                                                                  *)
C30_TotalIsTheSumOfTheCounts ==
    ar_results # NoParse
        => /\ ar_results.total_tests
                  = ar_results.passed + ar_results.failed
                        + ar_results.broken + ar_results.skipped
           /\ ar_results.total_tests = Len(ar_results.tests)


-----------------------------------------------------------------------------
(* The indentation repair                                                  *)

(* Line i of `after` is line i of `before`, as it was or, when it follows  *)
(* a block-opening line and was not indented, one level deeper.            *)
SameLineOrIndented(before, after, i) ==
    \/ after[i] = before[i]
    \/ /\ i > 1
       /\ EndsWithColon(before[i - 1])
       /\ ~StartsIndented(before[i])
       /\ after[i] = Indent(before[i])

(* C26: an application of _apply_common_fixes whose only fix is the        *)
(* indentation repair returns the lines of its input, as many and in the   *)
(* same order, none added, removed or duplicated; a line differs only by   *)
(* one more level of indentation, on a line that follows a block-opening   *)
(* line and was not indented.                                              *)
C26_IndentationRepairOnlyIndents ==
    (fx_applied >= 1 /\ fx_fixes = <<"indentation">>)
        => /\ Len(fx_code) = Len(fx_before)
           /\ \A i \in 1..Len(fx_before) :
                  i <= Len(fx_code) => SameLineOrIndented(fx_before, fx_code, i)


-----------------------------------------------------------------------------
(* The breaker around the end of a call and around a rejection             *)

(* The step in which the call of p ends, however it ends, and the step in  *)
(* which the gate rejects it.                                              *)
CallEnds(p) == pc[p] \in {"request", "sleeping"} /\ pc'[p] = "done"

Rejects(p) == pc[p] = "idle" /\ pc'[p] = "done" /\ result'[p] = BreakerOpenError

(* C27: when a call that was admitted while the breaker was HALF_OPEN (the *)
(* call that took it there, or one that entered after it) ends, by         *)
(* success, failure, another exception or cancellation, the breaker is     *)
(* CLOSED or OPEN.                                                         *)
C27_NoHalfOpenAfterTheProbe ==
    [][\A p \in Procs :
          (CallEnds(p) /\ entry[p] \in {"open_reset", "half_probe", "half_idle"})
              => breaker'.state \in {"CLOSED", "OPEN"}]_vars

(* C28: a call rejected because the breaker is OPEN leaves state,          *)
(* failure_count and last_failure_time as they were (and so the time from  *)
(* which the breaker may go HALF_OPEN), and sends nothing.                 *)
C28_RejectionChangesNothing ==
    [][\A p \in Procs :
          Rejects(p)
              => /\ breaker.state = "OPEN"
                 /\ breaker'.state = breaker.state
                 /\ breaker'.failure_count = breaker.failure_count
                 /\ breaker'.last_failure_time = breaker.last_failure_time
                 /\ streak' = streak
                 /\ sent'[p] = 0]_vars

C28_Witness ==
    \E p \in Procs :
        /\ pc[p] = "done"
        /\ result[p] = BreakerOpenError
        /\ breaker.state = "OPEN"
        /\ breaker.recovery_timeout = 2
        /\ now = breaker.last_failure_time + 1
        /\ breaker.failure_count = breaker.failure_threshold


-----------------------------------------------------------------------------
(* The best candidate of generate_and_correct_test                         *)

(* C29: at the start of every attempt after the first, best_code and       *)
(* best_results are there (not None), whatever the earlier attempts gave;  *)
(* the loop does not read a missing best_results when it builds the fix    *)
(* request (which would raise AttributeError).                             *)
C29_BestExistsAfterTheFirstAttempt ==
    gc_attempt >= 1
        => /\ gc_pc = "await_ai" => best_code # <<>> /\ best_results # <<>>
           /\ ~(gc_pc = "raised" /\ best_results = <<>>)

====
